---- MODULE Spec2Model ----
(***************************************************************************)
(* A model of the airtable client: Client.RequestBytes (setup check, URL,  *)
(* rate limit, one GET, error envelope), Resource.Get (envelope decode and *)
(* the reflective field mapper with its handle* helpers).                  *)
(*                                                                         *)
(* JSON values are tagged records; a JSON number n/2 is kept as the        *)
(* integer n of halves, so that int64(n) is a real truncation.  A JSON     *)
(* object is the sequence of its members in text order.  A Go value of a   *)
(* destination slot is a tagged record too; a struct value is the sequence *)
(* of its fields' values in declaration order.                             *)
(***************************************************************************)
EXTENDS Integers, Sequences, FiniteSets, TLC

\* ------------------------------------------------------------- bounds

\* longest JSON array offered to a slice field
MaxLen == 2
\* calls one caller makes
MaxCalls == 2

\* ------------------------------------------------------------- JSON values

JNull == [t |-> "null"]
JBool(b) == [t |-> "bool", b |-> b]
JNum(h) == [t |-> "number", n |-> h]
JStr(s) == [t |-> "string", s |-> s]
JArr(a) == [t |-> "array", a |-> a]
JObj(o) == [t |-> "object", o |-> o]
Member(k, v) == [k |-> k, v |-> v]

\* m[key] of a decoded map[string]interface{}: the last member with that
\* key, nil (the decoding of null as well) when there is none
RECURSIVE MapIndexFrom(_, _, _)
MapIndexFrom(o, key, i) ==
    IF i = 0 THEN JNull
    ELSE IF o[i].k = key THEN o[i].v
    ELSE MapIndexFrom(o, key, i - 1)

MapIndex(o, key) == MapIndexFrom(o, key, Len(o))

HasKey(o, key) == \E i \in 1..Len(o) : o[i].k = key

\* ------------------------------------------------------------- record shapes

TBool == [kind |-> "bool"]
TInt == [kind |-> "int"]
TFloat == [kind |-> "float64"]
TString == [kind |-> "string"]
TInterface == [kind |-> "interface"]
\* a kind the mapper has no case for
TUint == [kind |-> "uint"]
TSlice(e) == [kind |-> "slice", elem |-> e]
\* a struct type without SelfParse
TStruct(fields) == [kind |-> "struct", hook |-> FALSE, rejects |-> {}, fields |-> fields]
\* a struct type whose pointer has a method SelfParse; rejects: the JSON types
\* for which this user-written hook returns an error
THooked(rejects) == [kind |-> "struct", hook |-> TRUE, rejects |-> rejects, fields |-> <<>>]
\* from: <<>> when the field has no `from` tag, <<k>> when it has `from:"k"`
StructField(name, from, ty) == [name |-> name, from |-> from, ty |-> ty]

IsHooked(ty) == ty.kind = "struct" /\ ty.hook

\* the external key of a field: the tag `from` if declared, else the name
KeyOf(fType) == IF fType.from # <<>> THEN fType.from[1] ELSE fType.name

\* ------------------------------------------------------------- Go values

GBool(b) == [t |-> "bool", b |-> b]
GInt(i) == [t |-> "int", i |-> i]
GFloat(h) == [t |-> "float64", n |-> h]
GString(s) == [t |-> "string", s |-> s]
GInterface(x) == [t |-> "interface", x |-> x]
GUint(u) == [t |-> "uint", u |-> u]
GSlice(isnil, e) == [t |-> "slice", isnil |-> isnil, e |-> e]
GStruct(f) == [t |-> "struct", f |-> f]
\* a value of a type with SelfParse: the raw values its hook was given
GHooked(seen) == [t |-> "hooked", seen |-> seen]

RECURSIVE Zero(_)
Zero(ty) ==
    CASE ty.kind = "bool" -> GBool(FALSE)
      [] ty.kind = "int" -> GInt(0)
      [] ty.kind = "float64" -> GFloat(0)
      [] ty.kind = "string" -> GString("")
      [] ty.kind = "interface" -> GInterface(JNull)
      [] ty.kind = "uint" -> GUint(0)
      [] ty.kind = "slice" -> GSlice(TRUE, <<>>)
      [] ty.kind = "struct" ->
            IF ty.hook THEN GHooked(<<>>)
            ELSE GStruct([i \in 1..Len(ty.fields) |-> Zero(ty.fields[i].ty)])

\* a value the caller's record may hold before a call
RECURSIVE Prefilled(_)
Prefilled(ty) ==
    CASE ty.kind = "bool" -> GBool(TRUE)
      [] ty.kind = "int" -> GInt(9)
      [] ty.kind = "float64" -> GFloat(9)
      [] ty.kind = "string" -> GString("old")
      [] ty.kind = "interface" -> GInterface(JStr("old"))
      [] ty.kind = "uint" -> GUint(9)
      [] ty.kind = "slice" -> GSlice(FALSE, <<Prefilled(ty.elem)>>)
      [] ty.kind = "struct" ->
            IF ty.hook THEN GHooked(<<JStr("old")>>)
            ELSE GStruct([i \in 1..Len(ty.fields) |-> Prefilled(ty.fields[i].ty)])

\* ------------------------------------------------------------- field mapper

\* A panic raised by the mapper: fmt.Sprintf("PARSE ERROR: could not parse
\* column '%s' as <as>", key) or "UNHANDLED CASE: <key> of kind <as>"
\* (key: the column named, as: the kind named, msg: any other text)
Error(kind, key, as, msg) == [kind |-> kind, key |-> key, as |-> as, msg |-> msg]
NoError == Error("nil", "", "", "")
ParseError(key, as) == Error("PARSE ERROR", key, as, "")
UnhandledCase(key, kind) == Error("UNHANDLED CASE", key, kind, "")

\* What a handler leaves behind: ok (it returned) or not (it panicked), the
\* slot's value afterwards, the panic value, and the SelfParse calls it made
\* (each with the raw value passed and the value the hook returned).
Returned(val, calls) == [ok |-> TRUE, val |-> val, err |-> NoError, calls |-> calls]
Panicked(val, err, calls) == [ok |-> FALSE, val |-> val, err |-> err, calls |-> calls]

\* int64(n) of a float64 holding h/2: truncation toward zero
Int64(h) == IF h >= 0 THEN h \div 2 ELSE -((-h) \div 2)

handleStringMutant(key, f, v) ==
    IF v.t # "string" THEN Returned(f, <<>>)
    ELSE Returned(GString(v.s), <<>>)

handleString(key, f, v) ==
    IF v.t # "string" THEN Panicked(f, ParseError(key, "string"), <<>>)
    ELSE Returned(GString(v.s), <<>>)

handleInt(key, f, v) ==
    IF v.t # "number" THEN Panicked(f, ParseError(key, "int"), <<>>)
    ELSE Returned(GInt(Int64(v.n)), <<>>)

\* the message says "as int" in the source
handleFloat(key, f, v) ==
    IF v.t # "number" THEN Panicked(f, ParseError(key, "int"), <<>>)
    ELSE Returned(GFloat(v.n), <<>>)

handleBool(key, f, v) ==
    IF v.t # "bool" THEN Panicked(f, ParseError(key, "bool"), <<>>)
    ELSE Returned(GBool(v.b), <<>>)

handleInterface(key, f, v) == Returned(GInterface(v), <<>>)

\* The user's SelfParse: it is given the raw value and returns an error or nil
SelfParse(ty, v) == IF v.t \in ty.rejects THEN "error" ELSE "nil"

RECURSIVE handleStruct(_, _, _, _)
RECURSIVE handleSlice(_, _, _, _)
RECURSIVE structLoop(_, _, _, _, _)
RECURSIVE sliceLoop(_, _, _, _, _, _)

\* the range loop of handleSlice from element i on; dst is the new slice
sliceLoop(key, elemTy, s, i, dst, calls) ==
    IF i > Len(s) THEN Returned(dst, calls)
    ELSE
      LET elem == dst[i]
          v == s[i]
          r == CASE elemTy.kind = "struct" -> handleStruct(key, elem, v, elemTy)
                 [] elemTy.kind = "bool" -> handleBool(key, elem, v)
                 [] elemTy.kind = "int" -> handleInt(key, elem, v)
                 [] elemTy.kind = "float64" -> handleFloat(key, elem, v)
                 [] elemTy.kind = "string" -> handleString(key, elem, v)
                 [] elemTy.kind = "slice" -> handleSlice(key, elem, v, elemTy)
                 [] OTHER -> Panicked(elem, UnhandledCase(key, elemTy.kind), <<>>)
      IN  IF r.ok
          THEN sliceLoop(key, elemTy, s, i + 1,
                         [dst EXCEPT ![i] = r.val], calls \o r.calls)
          ELSE Panicked([dst EXCEPT ![i] = r.val], r.err, calls \o r.calls)

handleSliceMutant(key, f, v, ty) ==
    IF v.t # "array" THEN Panicked(f, ParseError(key, "slice"), <<>>)
    ELSE
      LET dst == [i \in 1..Len(v.a) |-> Zero(ty.elem)]
          r == sliceLoop(key, ty.elem, v.a, 1, dst, <<>>)
      IN  IF r.ok THEN Returned(GSlice(FALSE, r.val), r.calls)
          ELSE Panicked(GSlice(FALSE, r.val), r.err, r.calls)

\* f is assigned only by the final f.Set(dst): a panic leaves it as it was
handleSlice(key, f, v, ty) ==
    IF v.t # "array" THEN Panicked(f, ParseError(key, "slice"), <<>>)
    ELSE
      LET dst == [i \in 1..Len(v.a) |-> Zero(ty.elem)]
          r == sliceLoop(key, ty.elem, v.a, 1, dst, <<>>)
      IN  IF r.ok THEN Returned(GSlice(FALSE, r.val), r.calls)
          ELSE Panicked(f, r.err, r.calls)

\* the field loop of handleStruct from field i on; fs is the struct's fields,
\* written in place
structLoop(fs, m, sType, i, calls) ==
    IF i > Len(sType.fields) THEN Returned(GStruct(fs), calls)
    ELSE
      LET f == fs[i]
          fType == sType.fields[i]
          key == KeyOf(fType)
          v == MapIndex(m, key)
          r == CASE fType.ty.kind = "struct" -> handleStruct(key, f, v, fType.ty)
                 [] fType.ty.kind = "bool" -> handleBool(key, f, v)
                 [] fType.ty.kind = "int" -> handleInt(key, f, v)
                 [] fType.ty.kind = "float64" -> handleFloat(key, f, v)
                 [] fType.ty.kind = "string" -> handleString(key, f, v)
                 [] fType.ty.kind = "slice" -> handleSlice(key, f, v, fType.ty)
                 [] OTHER -> Panicked(f, UnhandledCase(key, fType.ty.kind), <<>>)
      IN  IF r.ok
          THEN structLoop([fs EXCEPT ![i] = r.val], m, sType, i + 1,
                          calls \o r.calls)
          ELSE Panicked(GStruct([fs EXCEPT ![i] = r.val]), r.err, calls \o r.calls)

\* SelfParse's results are dropped: maybeParse.Call(args) is a statement
handleStruct(key, s, v, ty) ==
    IF ty.hook
    THEN Returned(GHooked(Append(s.seen, v)),
                  <<[raw |-> v, ret |-> SelfParse(ty, v)]>>)
    ELSE IF v.t # "object" THEN Panicked(s, ParseError(key, "struct"), <<>>)
    ELSE structLoop(s.f, v.o, ty, 1, <<>>)

\* the switch of Resource.Get on f.Kind(), entered when v != nil
getSwitch(key, f, v, ty) ==
    CASE ty.kind = "struct" -> handleStruct(key, f, v, ty)
      [] ty.kind = "bool" -> handleBool(key, f, v)
      [] ty.kind = "int" -> handleInt(key, f, v)
      [] ty.kind = "float64" -> handleFloat(key, f, v)
      [] ty.kind = "string" -> handleString(key, f, v)
      [] ty.kind = "slice" -> handleSlice(key, f, v, ty)
      [] ty.kind = "interface" -> handleInterface(key, f, v)
      [] OTHER -> Panicked(f, UnhandledCase(key, ty.kind), <<>>)

\* ------------------------------------------------------------- inputs

\* The record types callers map into (after MainTestRecord of the tests:
\* strings, an int, a checkbox, an attachment struct, string lists, a
\* formula result), one small type per feature of the mapper.
ThumbnailType ==
    TStruct(<<StructField("URL", <<>>, TString), StructField("Width", <<>>, TInt)>>)

AttachmentType ==
    TStruct(<<StructField("ID", <<"id">>, TString),
              StructField("Size", <<>>, TInt),
              StructField("Thumb", <<>>, ThumbnailType)>>)

RecordType(shape) ==
    CASE shape = "Main" ->
           TStruct(<<StructField("Name", <<>>, TString),
                     StructField("Rating", <<"Stars">>, TInt),
                     StructField("Check", <<>>, TBool),
                     StructField("Formula", <<>>, TInterface)>>)
      [] shape = "Files" ->
           TStruct(<<StructField("Attachments", <<>>, AttachmentType),
                     StructField("Result", <<>>, THooked({"number"}))>>)
      [] shape = "Lists" ->
           TStruct(<<StructField("Animals", <<>>, TSlice(TString)),
                     StructField("Score", <<>>, TFloat)>>)
      [] shape = "Thumbs" ->
           TStruct(<<StructField("Thumbs", <<>>,
                        TSlice(TStruct(<<StructField("URL", <<"url">>, TString)>>))),
                     StructField("Name", <<>>, TString)>>)
      [] shape = "Grid" ->
           TStruct(<<StructField("Cells", <<>>, TSlice(TSlice(TInt))),
                     StructField("Count", <<>>, TUint)>>)
      [] shape = "Open" ->
           TStruct(<<StructField("Meta", <<>>,
                        TStruct(<<StructField("Tag", <<>>, TString),
                                  StructField("Any", <<>>, TInterface)>>)),
                     StructField("Items", <<>>, TSlice(TInterface))>>)
      [] shape = "Hooks" ->
           TStruct(<<StructField("Inner", <<>>,
                        TStruct(<<StructField("Val", <<>>, THooked({"string"})),
                                  StructField("N", <<>>, TInt)>>)),
                     StructField("Results", <<>>, TSlice(THooked({"bool"})))>>)

Shapes == {"Main", "Files", "Lists", "Thumbs", "Grid", "Open", "Hooks"}

\* all sequences over S of length at most n
RECURSIVE SeqsUpTo(_, _)
SeqsUpTo(S, n) ==
    IF n <= 0 THEN {<<>>}
    ELSE LET shorter == SeqsUpTo(S, n - 1)
         IN  shorter \cup {Append(q, x) : q \in {r \in shorter : Len(r) = n - 1}, x \in S}

\* one JSON value of a type the kind does not accept ({} when every type is
\* accepted: an interface slot, a struct with SelfParse)
WrongValues(ty) ==
    CASE ty.kind \in {"bool", "int", "float64", "slice"} -> {JStr("x")}
      [] ty.kind = "string" -> {JNum(4)}
      [] ty.kind = "struct" /\ ~ty.hook -> {JStr("x")}
      [] OTHER -> {}

\* The JSON values offered for a slot of type ty at nesting depth d.  all:
\* with null and WrongValues at every level (and, in objects, absent keys);
\* otherwise only values of the JSON type the kind accepts, every key
\* present.  Deeper slots are offered fewer values.
RECURSIVE Values(_, _, _)
RECURSIVE Objects(_, _, _, _)
Objects(fields, i, d, all) ==
    IF i > Len(fields) THEN {<<>>}
    ELSE LET key == KeyOf(fields[i])
             here == {<<Member(key, v)>> : v \in Values(fields[i].ty, d, all)}
                       \cup (IF all THEN {<<>>} ELSE {})
         IN  {m \o rest : m \in here, rest \in Objects(fields, i + 1, d, all)}

Values(ty, d, all) ==
    LET typed ==
          CASE ty.kind = "bool" -> {JBool(TRUE)} \cup (IF d = 0 THEN {JBool(FALSE)} ELSE {})
            [] ty.kind \in {"int", "float64", "uint"} ->
                 {JNum(-7)} \cup (IF d = 0 THEN {JNum(4)} ELSE {})
            [] ty.kind = "string" -> {JStr("a")} \cup (IF d = 0 THEN {JStr("b")} ELSE {})
            [] ty.kind = "interface" ->
                 {JNum(7)} \cup (IF d = 0 THEN {JStr("a"), JObj(<<>>)} ELSE {})
            [] ty.kind = "slice" ->
                 {JArr(a) : a \in SeqsUpTo(Values(ty.elem, d + 1, all), MaxLen - d)}
            [] ty.kind = "struct" ->
                 IF ty.hook THEN {JStr("a"), JNum(7), JBool(TRUE)}
                 ELSE {JObj(o) : o \in Objects(ty.fields, 1, d + 1, all)}
    IN  typed \cup (IF all THEN WrongValues(ty) \cup {JNull} ELSE {})

\* the fields maps a response may carry for a record type
FieldsMaps(shape) == Objects(RecordType(shape).fields, 1, 0, TRUE)

\* v is of the JSON type the declared kind accepts, at every level
RECURSIVE Matches(_, _)
Matches(ty, v) ==
    CASE ty.kind = "bool" -> v.t = "bool"
      [] ty.kind \in {"int", "float64"} -> v.t = "number"
      [] ty.kind = "string" -> v.t = "string"
      [] ty.kind = "interface" -> v.t # "null"
      [] ty.kind = "slice" ->
           v.t = "array" /\ \A i \in 1..Len(v.a) : Matches(ty.elem, v.a[i])
      [] ty.kind = "struct" ->
           \/ ty.hook /\ v.t # "null"
           \/ /\ ~ty.hook
              /\ v.t = "object"
              /\ \A i \in 1..Len(ty.fields) :
                    Matches(ty.fields[i].ty, MapIndex(v.o, KeyOf(ty.fields[i])))
      [] OTHER -> FALSE

\* a few fields maps for Main, for the runs that are about the callers
FewFieldsMaps ==
    { <<Member("Name", JStr("a")), Member("Stars", JNum(4)), Member("Check", JBool(TRUE))>>,
      <<Member("Name", JStr("b")), Member("Stars", JNum(-7)), Member("Check", JBool(FALSE))>>,
      <<Member("Name", JStr("b")), Member("Stars", JStr("x"))>> }

\* ------------------------------------------------------------- response bodies

\* a body that is not JSON
NotJSON == [t |-> "invalid"]

\* the bodies that carry an "error" member, and the bodies that are no object
ErrorBodies ==
    LET types == {<<>>} \cup {<<Member("type", v)>> :
                     v \in {JNull, JStr(""), JStr("INVALID_FILTER"), JNum(4)}}
        messages == {<<>>} \cup {<<Member("message", v)>> :
                     v \in {JStr("bad filter"), JNum(4)}}
        errors == {JNull, JStr("NOT_FOUND")} \cup
                  {JObj(ty \o m) : ty \in types, m \in messages}
    IN  {JObj(<<Member("error", e)>>) : e \in errors}

OtherBodies == {NotJSON, JNull, JArr(<<>>), JObj(<<>>)}

FewOtherBodies ==
    { NotJSON,
      JObj(<<Member("error", JObj(<<Member("type", JStr("INVALID_FILTER")),
                                    Member("message", JStr("bad filter"))>>))>>) }

\* {id, fields, createdTime} around a fields map, and two ill-shaped ones
RecordBody(fields) ==
    JObj(<<Member("id", JStr("rec1")), Member("fields", JObj(fields)),
           Member("createdTime", JStr("2017"))>>)

IllShapedBodies(fields) ==
    { JObj(<<Member("id", JStr("rec1")), Member("fields", JStr("x"))>>),
      JObj(<<Member("id", JNum(4)), Member("fields", JObj(fields))>>) }

\* json.Unmarshal of a member into a Go string field: null and an absent key
\* leave it "", a string sets it, any other type is an UnmarshalTypeError
\* (the decoder goes on and reports the error at the end)
StringField(o, key) ==
    LET v == MapIndex(o, key)
    IN  IF v.t = "string" THEN [err |-> FALSE, s |-> v.s]
        ELSE [err |-> v.t # "null", s |-> ""]

\* json.Unmarshal(b, &reqerr) for errorResponse
UnmarshalErrorResponse(b) ==
    IF b.t = "invalid" THEN [err |-> TRUE, Type |-> "", Message |-> ""]
    ELSE IF b.t = "null" THEN [err |-> FALSE, Type |-> "", Message |-> ""]
    ELSE IF b.t # "object" THEN [err |-> TRUE, Type |-> "", Message |-> ""]
    ELSE LET e == MapIndex(b.o, "error")
         IN  IF e.t = "null" THEN [err |-> FALSE, Type |-> "", Message |-> ""]
             ELSE IF e.t # "object" THEN [err |-> TRUE, Type |-> "", Message |-> ""]
             ELSE LET ty == StringField(e.o, "type")
                      msg == StringField(e.o, "message")
                  IN  [err |-> ty.err \/ msg.err, Type |-> ty.s, Message |-> msg.s]

checkErrorResponseMutant(b) ==
    LET reqerr == UnmarshalErrorResponse(b)
    IN  IF reqerr.err THEN Error("json", "", "", "")
        ELSE IF reqerr.Message # "" THEN Error("ErrClientRequestError", "", "", reqerr.Message)
        ELSE NoError

checkErrorResponse(b) ==
    LET reqerr == UnmarshalErrorResponse(b)
    IN  IF reqerr.err THEN Error("json", "", "", "")
        ELSE IF reqerr.Type # "" THEN Error("ErrClientRequestError", "", "", reqerr.Message)
        ELSE NoError

\* json.Unmarshal(bytes, &resp) for GetResponse; Fields is the decoded map
\* (no members for a nil map)
UnmarshalGetResponse(b) ==
    IF b.t = "invalid" THEN [err |-> TRUE, ID |-> "", Fields |-> <<>>]
    ELSE IF b.t = "null" THEN [err |-> FALSE, ID |-> "", Fields |-> <<>>]
    ELSE IF b.t # "object" THEN [err |-> TRUE, ID |-> "", Fields |-> <<>>]
    ELSE LET id == StringField(b.o, "id")
             created == StringField(b.o, "createdTime")
             f == MapIndex(b.o, "fields")
         IN  [err |-> id.err \/ created.err \/ f.t \notin {"null", "object"},
              ID |-> id.s,
              Fields |-> IF f.t = "object" THEN f.o ELSE <<>>]

\* ------------------------------------------------------------- state

defaultRootURL == "https://api.airtable.com"
defaultVersion == "v0"

\* a root that makes the URL one http.NewRequest cannot parse
BadRootURL == ":bad"

Procs == {1, 2}
Resources == {"r1", "r2"}
Methods == {"GET", "POST"}

VARIABLES
    client,      \* the Client: APIKey, BaseID, Version, RootURL, HTTPClient (set or nil)
    client0,     \* the Client as the caller built it
    noLimit,     \* os.Getenv("AIRTABLE_NO_LIMIT")
    granted,     \* tokens the package's limiter has handed out
    dispatched,  \* requests given to HTTPClient.Do so far
    callers,     \* the goroutines that call
    rich,        \* whether responses range over every fields map of the shape
    budget,      \* calls each caller may still start
    resOf,       \* the Resource each caller uses
    shape,       \* the record type bound to each Resource
    record,      \* the record each Resource points to, a struct's fields
    call         \* each caller's call in progress

vars == <<client, client0, noLimit, granted, dispatched, callers, rich, budget,
          resOf, shape, record, call>>

NoOut == [state |-> "none", bytes |-> <<>>, resp |-> <<>>, err |-> NoError]

\* a call not yet started
NoCall ==
    [pc |-> "idle", mode |-> "Get", method |-> "GET", req |-> <<>>, took |-> 0,
     sent |-> 0, body |-> <<>>, rb |-> NoOut, decoded |-> FALSE, fields |-> <<>>,
     idx |-> 0, before |-> <<>>, hooks |-> <<>>, out |-> NoOut]

Client(apiKey, baseID, version, rootURL, httpClient) ==
    [APIKey |-> apiKey, BaseID |-> baseID, Version |-> version, RootURL |-> rootURL,
     HTTPClient |-> httpClient]

\* makeClient of the tests: the key, the base and the HTTP client, no more
TestClient == Client("key123", "appXXX", "", "", TRUE)

ClientConfigs ==
    { TestClient,
      Client("key123", "appXXX", "v1", "http://localhost", TRUE),
      Client("key123", "appXXX", "", BadRootURL, TRUE),
      Client("key123", "", "v1", "", TRUE),
      Client("", "appXXX", "", "http://localhost", TRUE),
      Client("", "", "", "", TRUE),
      Client("key123", "appXXX", "", "http://localhost", FALSE) }

RecordOf(shp, filled) ==
    LET ty == RecordType(shp)
    IN  [i \in 1..Len(ty.fields) |->
            IF filled THEN Prefilled(ty.fields[i].ty) ELSE Zero(ty.fields[i].ty)]

\* one caller, one Resource of any shape, any response
InitMapper ==
    /\ client = TestClient
    /\ noLimit = ""
    /\ callers = {1}
    /\ rich = TRUE
    /\ budget = [p \in Procs |-> IF p = 1 THEN 1 ELSE 0]
    /\ resOf = [p \in Procs |-> "r1"]
    /\ \E shp \in Shapes, filled \in BOOLEAN :
          /\ shape = [r \in Resources |-> shp]
          /\ record = [r \in Resources |-> RecordOf(shp, r = "r1" /\ filled)]

\* one caller, any client and environment, a few responses
InitSetups ==
    /\ client \in ClientConfigs
    /\ noLimit \in {"", "1"}
    /\ callers = {1}
    /\ rich = FALSE
    /\ budget = [p \in Procs |-> IF p = 1 THEN MaxCalls ELSE 0]
    /\ resOf = [p \in Procs |-> "r1"]
    /\ shape = [r \in Resources |-> "Main"]
    /\ record = [r \in Resources |-> RecordOf("Main", FALSE)]

\* two callers on one Client, on one Resource or on two, a few responses
InitCallers ==
    /\ client = TestClient
    /\ noLimit \in {"", "1"}
    /\ callers = Procs
    /\ rich = FALSE
    /\ budget = [p \in Procs |-> 1]
    /\ resOf \in {[p \in Procs |-> "r1"], [p \in Procs |-> IF p = 1 THEN "r1" ELSE "r2"]}
    /\ shape = [r \in Resources |-> "Main"]
    /\ record = [r \in Resources |-> RecordOf("Main", FALSE)]

InitRest ==
    /\ client0 = client
    /\ granted = 0
    /\ dispatched = 0
    /\ call = [p \in Procs |-> NoCall]

Init == (InitMapper \/ InitSetups) /\ InitRest

InitConc == (InitCallers \/ InitSetups) /\ InitRest

\* ------------------------------------------------------------- operations

ResourceName(r) == shape[r]

\* fmt.Sprintf("%s/%s/%s/%s?%s", RootURL, Version, BaseID, resource, q)
makeURL(c, resource, q) == <<c.RootURL, c.Version, c.BaseID, resource, q>>

\* whether http.NewRequest can parse the URL
ParsesURL(url) == url[1] # BadRootURL

\* the bodies the service may answer a caller with
Bodies(p) ==
    IF rich
    THEN {RecordBody(f) : f \in FieldsMaps(shape[resOf[p]])}
           \cup ErrorBodies \cup OtherBodies
           \cup IllShapedBodies(<<Member("Name", JStr("a"))>>)
    ELSE {RecordBody(f) : f \in FewFieldsMaps} \cup FewOtherBodies

Returns(bytes, resp, err) == [state |-> "returned", bytes |-> bytes, resp |-> resp, err |-> err]
Panics(err) == [state |-> "panicked", bytes |-> <<>>, resp |-> <<>>, err |-> err]

\* a caller starts Resource.Get, or Client.RequestBytes with a method of its own
Call(p) ==
    /\ call[p].pc \in {"idle", "done"}
    /\ budget[p] > 0
    /\ budget' = [budget EXCEPT ![p] = @ - 1]
    /\ \E mode \in {"Get", "RequestBytes"} :
         \E method \in (IF mode = "Get" THEN {"GET"} ELSE Methods) :
            call' = [call EXCEPT ![p] =
                        [NoCall EXCEPT !.pc = "checkSetup", !.mode = mode,
                                       !.method = method]]
    /\ UNCHANGED <<client, client0, noLimit, granted, dispatched, callers, rich,
                   resOf, shape, record>>

\* the panic of checkSetup, "" when the client passes
SetupPanic(c) ==
    IF c.BaseID = "" THEN "airtable: Client missing BaseID"
    ELSE IF c.APIKey = "" THEN "airtable: Client missing APIKey"
    ELSE IF ~c.HTTPClient THEN "airtable: missing HTTP client"
    ELSE ""

SetupDefaultsMutant(c) == [c EXCEPT !.Version = defaultVersion, !.RootURL = defaultRootURL]

\* the defaults checkSetup fills in on a client that passes
SetupDefaults(c) ==
    [c EXCEPT !.Version = IF @ = "" THEN defaultVersion ELSE @,
              !.RootURL = IF @ = "" THEN defaultRootURL ELSE @]

checkSetup(p) ==
    /\ call[p].pc = "checkSetup"
    /\ \/ /\ SetupPanic(client) # ""
          /\ call' = [call EXCEPT ![p].pc = "done",
                         ![p].out = Panics(Error("setup", "", "", SetupPanic(client)))]
          /\ UNCHANGED client
       \/ /\ SetupPanic(client) = ""
          /\ client' = SetupDefaults(client)
          /\ call' = [call EXCEPT ![p].pc = "NewRequest"]
    /\ UNCHANGED <<client0, noLimit, granted, dispatched, callers, rich, budget,
                   resOf, shape, record>>

\* makeURL and http.NewRequest("GET", url, http.NoBody), whatever the method
\* argument; the Authorization header
NewRequest(p) ==
    /\ call[p].pc = "NewRequest"
    /\ LET endpoint == IF call[p].mode = "Get"
                       THEN <<ResourceName(resOf[p]), "rec1">>
                       ELSE <<ResourceName(resOf[p])>>
           url == makeURL(client, endpoint, "")
       IN  \/ /\ ~ParsesURL(url)
              /\ call' = [call EXCEPT ![p].pc = "done",
                    ![p].rb = Returns(<<>>, <<>>, Error("url", "", "", "")),
                    ![p].out = Returns(<<>>, <<>>, Error("url", "", "", ""))]
           \/ /\ ParsesURL(url)
              /\ call' = [call EXCEPT ![p].pc = "limit",
                    ![p].req = <<[method |-> "GET", url |-> url,
                                  auth |-> <<"Bearer", client.APIKey>>]>>]
    /\ UNCHANGED <<client, client0, noLimit, granted, dispatched, callers, rich,
                   budget, resOf, shape, record>>

TakeMutant(p) ==
    /\ call[p].pc = "limit"
    /\ call' = [call EXCEPT ![p].pc = "Do"]
    /\ UNCHANGED <<client, client0, noLimit, granted, dispatched, callers, rich,
                   budget, resOf, shape, record>>

\* limiter.Take() unless AIRTABLE_NO_LIMIT is set; Take returns once the
\* limiter lets the caller go
Take(p) ==
    /\ call[p].pc = "limit"
    /\ \/ /\ noLimit = ""
          /\ granted' = granted + 1
          /\ call' = [call EXCEPT ![p].pc = "Do", ![p].took = @ + 1]
       \/ /\ noLimit # ""
          /\ call' = [call EXCEPT ![p].pc = "Do"]
          /\ UNCHANGED granted
    /\ UNCHANGED <<client, client0, noLimit, dispatched, callers, rich, budget,
                   resOf, shape, record>>

\* c.HTTPClient.Do(req): the request leaves
Do(p) ==
    /\ call[p].pc = "Do"
    /\ dispatched' = dispatched + 1
    /\ call' = [call EXCEPT ![p].pc = "await", ![p].sent = @ + 1]
    /\ UNCHANGED <<client, client0, noLimit, granted, callers, rich, budget,
                   resOf, shape, record>>

\* What RequestBytes returns for a body read, and what Get does with it up to
\* the field loop: it returns the error, or decodes the envelope.
AfterBody(p, b) ==
    LET err == checkErrorResponse(b)
        rb == Returns(<<b>>, <<>>, err)
        resp == UnmarshalGetResponse(b)
    IN  IF call[p].mode = "RequestBytes"
        THEN [call[p] EXCEPT !.pc = "done", !.body = <<b>>, !.rb = rb, !.out = rb]
        ELSE IF err # NoError
        THEN [call[p] EXCEPT !.pc = "done", !.body = <<b>>, !.rb = rb,
                             !.out = Returns(<<>>, <<>>, err)]
        ELSE IF resp.err
        THEN [call[p] EXCEPT !.pc = "done", !.body = <<b>>, !.rb = rb,
                             !.decoded = TRUE,
                             !.out = Returns(<<>>, <<>>, Error("json", "", "", ""))]
        ELSE [call[p] EXCEPT !.pc = "map", !.body = <<b>>, !.rb = rb,
                             !.decoded = TRUE, !.fields = resp.Fields, !.idx = 1,
                             !.before = record[resOf[p]]]

\* Do returns: a transport error, a body that cannot be read, or a body
Respond(p) ==
    /\ call[p].pc = "await"
    /\ \/ \E kind \in {"transport", "read"} :
            LET rb == Returns(<<>>, <<>>, Error(kind, "", "", ""))
            IN  call' = [call EXCEPT ![p].pc = "done", ![p].rb = rb, ![p].out = rb]
       \/ \E b \in Bodies(p) : call' = [call EXCEPT ![p] = AfterBody(p, b)]
    /\ UNCHANGED <<client, client0, noLimit, granted, dispatched, callers, rich,
                   budget, resOf, shape, record>>

\* v != nil for a value looked up in resp.Fields
NotNilMutant(v) == TRUE
NotNil(v) == v.t # "null"

\* one round of the field loop of Get
MapField(p) ==
    /\ call[p].pc = "map"
    /\ call[p].idx <= Len(RecordType(shape[resOf[p]]).fields)
    /\ LET i == call[p].idx
           f == record[resOf[p]][i]
           fType == RecordType(shape[resOf[p]]).fields[i]
           key == KeyOf(fType)
           v == MapIndex(call[p].fields, key)
           r == getSwitch(key, f, v, fType.ty)
       IN  \/ /\ ~NotNil(v)
              /\ call' = [call EXCEPT ![p].idx = i + 1]
              /\ UNCHANGED record
           \/ /\ NotNil(v)
              /\ r.ok
              /\ record' = [record EXCEPT ![resOf[p]][i] = r.val]
              /\ call' = [call EXCEPT ![p].idx = i + 1, ![p].hooks = @ \o r.calls]
           \/ /\ NotNil(v)
              /\ ~r.ok
              /\ record' = [record EXCEPT ![resOf[p]][i] = r.val]
              /\ call' = [call EXCEPT ![p].pc = "done", ![p].hooks = @ \o r.calls,
                                      ![p].out = Panics(r.err)]
    /\ UNCHANGED <<client, client0, noLimit, granted, dispatched, callers, rich,
                   budget, resOf, shape>>

\* return &resp, nil
Return(p) ==
    /\ call[p].pc = "map"
    /\ call[p].idx > Len(RecordType(shape[resOf[p]]).fields)
    /\ call' = [call EXCEPT ![p].pc = "done",
                   ![p].out = Returns(<<>>, <<call[p].fields>>, NoError)]
    /\ UNCHANGED <<client, client0, noLimit, granted, dispatched, callers, rich,
                   budget, resOf, shape, record>>

Next ==
    \/ \E p \in callers : Call(p)
    \/ \E p \in callers : checkSetup(p)
    \/ \E p \in callers : NewRequest(p)
    \/ \E p \in callers : Take(p)
    \/ \E p \in callers : Do(p)
    \/ \E p \in callers : Respond(p)
    \/ \E p \in callers : MapField(p)
    \/ \E p \in callers : Return(p)

Spec == Init /\ [][Next]_vars

SpecConc == InitConc /\ [][Next]_vars

\* ------------------------------------------------------------- properties

\* the record type, the keys and the looked-up values of caller p's pass
TypeOf(p) == RecordType(shape[resOf[p]])
NumField(p) == Len(TypeOf(p).fields)
FieldType(p, i) == TypeOf(p).fields[i].ty
FieldKey(p, i) == KeyOf(TypeOf(p).fields[i])
FieldValue(p, i) == MapIndex(call[p].fields, FieldKey(p, i))
Dest(p) == record[resOf[p]]

\* the pass of caller p panicked in its i-th declared field
FailedAt(p, i) ==
    call[p].pc = "done" /\ call[p].out.state = "panicked" /\ call[p].idx = i

\* the pass of caller p is over for its i-th declared field
Processed(p, i) ==
    /\ call[p].pc \in {"map", "done"}
    /\ call[p].idx > 0
    /\ call[p].idx > i \/ FailedAt(p, i)

\* C6: a declared top-level field whose key is absent from the fields map or
\* null there does not make the mapping fail and keeps the value it had
\* before the call, whatever its kind (a kind without a case included).
C6_MissingKeyKeepsValue ==
    \A p \in callers : \A i \in 1..NumField(p) :
        (Processed(p, i) /\ FieldValue(p, i).t = "null")
            => /\ ~FailedAt(p, i)
               /\ Dest(p)[i] = call[p].before[i]

\* an unsupported field of a filled record was skipped, its key absent
C6_Witness ==
    \E p \in callers : \E i \in 1..NumField(p) :
        /\ Processed(p, i)
        /\ ~HasKey(call[p].fields, FieldKey(p, i))
        /\ FieldType(p, i).kind = "uint"
        /\ Dest(p)[i] = GUint(9)
        /\ call[p].out.state = "returned"

\* C8: a call on a client whose BaseID or APIKey is empty ends in a setup
\* failure (no ErrClientRequestError, no transport error), and by then it has
\* taken no token, dispatched no request and left Version and RootURL alone;
\* on a client that passes the check, Version and RootURL become "v0" and
\* "https://api.airtable.com" only when they were empty.
C8_SetupFailFast ==
    \A p \in callers :
        /\ (call[p].pc \notin {"idle", "checkSetup"}
              /\ (client0.BaseID = "" \/ client0.APIKey = ""))
             => /\ call[p].pc = "done"
                /\ call[p].out.state = "panicked"
                /\ call[p].out.err.kind = "setup"
                /\ call[p].out.err.kind \notin {"ErrClientRequestError", "transport", "read"}
                /\ call[p].took = 0
                /\ call[p].sent = 0
                /\ granted = 0
                /\ dispatched = 0
                /\ client.Version = client0.Version
                /\ client.RootURL = client0.RootURL
        /\ (call[p].pc \notin {"idle", "checkSetup"}
              /\ ~(call[p].pc = "done" /\ call[p].out.err.kind = "setup"))
             => /\ client.Version =
                     (IF client0.Version = "" THEN "v0" ELSE client0.Version)
                /\ client.RootURL =
                     (IF client0.RootURL = "" THEN "https://api.airtable.com"
                      ELSE client0.RootURL)
        /\ client.Version \in {client0.Version, "v0"}
        /\ client.RootURL \in {client0.RootURL, "https://api.airtable.com"}
        /\ client.BaseID = client0.BaseID
        /\ client.APIKey = client0.APIKey

\* a call failed on a client with no BaseID and a version of the caller's,
\* and a call went on with a root of the caller's
C8_Witness ==
    \E p \in callers :
        \/ /\ call[p].pc = "done"
           /\ call[p].out.err.kind = "setup"
           /\ client0.BaseID = ""
           /\ client.Version = "v1"
           /\ budget[p] = 0
        \/ /\ call[p].pc = "limit"
           /\ client0.RootURL = "http://localhost"
           /\ client0.Version = ""
           /\ client.Version = "v0"
           /\ client.RootURL = "http://localhost"

\* C9: a call dispatches at most one request, always a GET whatever method
\* was asked for, and none after it has ended; with AIRTABLE_NO_LIMIT unset
\* the dispatch comes after exactly one token taken by the same call from the
\* one limiter, so dispatches never outnumber tokens; with it set no token
\* is taken.
C9_TokenBeforeSingleDispatch ==
    /\ \A p \in callers :
          /\ call[p].sent <= 1
          /\ call[p].req # <<>> => call[p].req[1].method = "GET"
          /\ call[p].sent = 1 => call[p].pc \in {"await", "map", "done"}
          /\ noLimit = "" => /\ call[p].took <= 1
                             /\ call[p].sent <= call[p].took
                             /\ call[p].pc = "Do" => call[p].took = 1
          /\ noLimit # "" => call[p].took = 0
    /\ noLimit = "" => dispatched <= granted
    /\ noLimit # "" => granted = 0

\* two callers have each dispatched, one of them asked for a POST, and each
\* took its token first
C9_Witness ==
    /\ noLimit = ""
    /\ \A p \in Procs : p \in callers /\ call[p].sent = 1 /\ call[p].took = 1
    /\ \E p \in callers : call[p].method = "POST" /\ call[p].req[1].method = "GET"
    /\ \E p \in callers : call[p].pc = "done" /\ call[p].out.err.kind = "transport"
    /\ granted = 2
    /\ dispatched = 2

\* the members of a body's error envelope as they stand in the JSON text
\* (null for a member that is absent)
ErrorMember(b) == MapIndex(b.o, "error")
TypeMember(b) ==
    IF ErrorMember(b).t = "object" THEN MapIndex(ErrorMember(b).o, "type") ELSE JNull
MessageMember(b) ==
    IF ErrorMember(b).t = "object" THEN MapIndex(ErrorMember(b).o, "message") ELSE JNull
TypeNonEmpty(b) == TypeMember(b).t = "string" /\ TypeMember(b).s # ""
TypeEmptyOrAbsent(b) ==
    TypeMember(b).t = "null" \/ (TypeMember(b).t = "string" /\ TypeMember(b).s = "")

\* the error member, when there is one, is an object whose type and message
\* are strings (or null, or absent)
EnvelopeShaped(b) ==
    /\ ErrorMember(b).t \in {"null", "object"}
    /\ TypeMember(b).t \in {"null", "string"}
    /\ MessageMember(b).t \in {"null", "string"}

\* what C7 says of a call that read the object b, for the bodies in scope
EnvelopeRule(p, b, scope) ==
    /\ (scope /\ TypeNonEmpty(b))
         => /\ call[p].rb.bytes = <<b>>
            /\ call[p].rb.err.kind = "ErrClientRequestError"
            /\ MessageMember(b).t = "string" => call[p].rb.err.msg = MessageMember(b).s
            /\ MessageMember(b).t = "null" => call[p].rb.err.msg = ""
    /\ (scope /\ TypeEmptyOrAbsent(b))
         => /\ call[p].rb.bytes = <<b>>
            /\ call[p].rb.err = NoError
    /\ (call[p].mode = "Get" /\ call[p].rb.err.kind = "ErrClientRequestError")
         => /\ call[p].pc = "done"
            /\ call[p].out = Returns(<<>>, <<>>, call[p].rb.err)
            /\ ~call[p].decoded
            /\ call[p].idx = 0

Abs(n) == IF n < 0 THEN -n ELSE n

\* the integer part of h/2: the integer of the same sign nearest to zero
\* within one of it
TruncTowardZero(h) ==
    CHOOSE k \in -Abs(h)..Abs(h) :
        /\ 2 * Abs(k) <= Abs(h)
        /\ Abs(h) < 2 * Abs(k) + 2
        /\ (h >= 0 => k >= 0) /\ (h <= 0 => k <= 0)

\* The value a slot of type ty that held old is to hold once v has been
\* mapped into it: old for a null or absent v, else the coerced v (a type
\* with SelfParse: whatever its hook makes of v).
RECURSIVE Expected(_, _, _)
Expected(ty, v, old) ==
    IF IsHooked(ty) THEN GHooked(Append(old.seen, v))
    ELSE IF v.t = "null" THEN old
    ELSE CASE ty.kind = "bool" /\ v.t = "bool" -> GBool(v.b)
           [] ty.kind = "int" /\ v.t = "number" -> GInt(TruncTowardZero(v.n))
           [] ty.kind = "float64" /\ v.t = "number" -> GFloat(v.n)
           [] ty.kind = "string" /\ v.t = "string" -> GString(v.s)
           [] ty.kind = "interface" -> GInterface(v)
           [] ty.kind = "slice" /\ v.t = "array" ->
                GSlice(FALSE, [i \in 1..Len(v.a) |->
                                  Expected(ty.elem, v.a[i], Zero(ty.elem))])
           [] ty.kind = "struct" /\ v.t = "object" ->
                GStruct([j \in 1..Len(ty.fields) |->
                            Expected(ty.fields[j].ty,
                                     MapIndex(v.o, KeyOf(ty.fields[j])), old.f[j])])
           [] OTHER -> [t |-> "none"]

\* v is null, or of the JSON type the declared kind accepts with every
\* nested value null or so typed in turn
RECURSIVE MatchesOrNull(_, _)
MatchesOrNull(ty, v) ==
    \/ v.t = "null"
    \/ CASE ty.kind = "slice" ->
              v.t = "array" /\ \A i \in 1..Len(v.a) : MatchesOrNull(ty.elem, v.a[i])
         [] ty.kind = "struct" /\ ~ty.hook ->
              /\ v.t = "object"
              /\ \A j \in 1..Len(ty.fields) :
                    MatchesOrNull(ty.fields[j].ty, MapIndex(v.o, KeyOf(ty.fields[j])))
         [] OTHER -> Matches(ty, v)

\* the kinds the switches of handleStruct and handleSlice have a case for,
\* all the way down
RECURSIVE NestedKinds(_)
NestedKinds(ty) ==
    CASE ty.kind \in {"bool", "int", "float64", "string"} -> TRUE
      [] ty.kind = "slice" -> NestedKinds(ty.elem)
      [] ty.kind = "struct" ->
           \A j \in 1..Len(ty.fields) : NestedKinds(ty.fields[j].ty)
      [] OTHER -> FALSE

\* ------------------------------------------------------------- C1

\* the value of a struct-kind field: an object with some declared keys
\* absent or null and every other declared key well typed
PartialObject(ty, v) ==
    /\ ty.kind = "struct" /\ ~ty.hook
    /\ \A j \in 1..Len(ty.fields) :
          ~IsHooked(ty.fields[j].ty) /\ NestedKinds(ty.fields[j].ty)
    /\ v.t = "object"
    /\ \E j \in 1..Len(ty.fields) : MapIndex(v.o, KeyOf(ty.fields[j])).t = "null"
    /\ \E j \in 1..Len(ty.fields) : MapIndex(v.o, KeyOf(ty.fields[j])).t # "null"
    /\ \A j \in 1..Len(ty.fields) :
          LET vj == MapIndex(v.o, KeyOf(ty.fields[j]))
          IN  vj.t = "null" \/ Matches(ty.fields[j].ty, vj)

\* C1: when the value for a struct-kind field (no SelfParse) is an object
\* with only some of the nested struct's keys, the mapping of the field
\* succeeds, the nested fields whose keys are present hold the coerced
\* values and the others are left as they were.
C1_NestedPartialData ==
    \A p \in callers : \A i \in 1..NumField(p) :
        (Processed(p, i) /\ PartialObject(FieldType(p, i), FieldValue(p, i)))
            => /\ ~FailedAt(p, i)
               /\ Dest(p)[i] =
                    Expected(FieldType(p, i), FieldValue(p, i), call[p].before[i])

\* ------------------------------------------------------------- C2

\* C2: a struct-kind slot whose type has SelfParse is mapped by the hook
\* alone, given the raw value, whatever JSON type that is, and the mapping
\* fails exactly when the hook returns an error.
C2_HookOutcome ==
    \A p \in callers :
        /\ \A i \in 1..NumField(p) :
              (Processed(p, i) /\ IsHooked(FieldType(p, i)) /\ FieldValue(p, i).t # "null")
                  => /\ Dest(p)[i] = GHooked(Append(call[p].before[i].seen, FieldValue(p, i)))
                     /\ FailedAt(p, i) <=>
                          SelfParse(FieldType(p, i), FieldValue(p, i)) = "error"
        /\ (\E k \in 1..Len(call[p].hooks) : call[p].hooks[k].ret = "error")
              => /\ call[p].pc = "done"
                 /\ call[p].out.err # NoError
        /\ (call[p].pc = "done" /\ call[p].out.state = "panicked"
              /\ call[p].idx > 0
              /\ \A k \in 1..Len(call[p].hooks) : call[p].hooks[k].ret = "nil")
              => LET i == call[p].idx
                 IN  ~IsHooked(FieldType(p, i))

\* ------------------------------------------------------------- C3

\* C3: of two calls running at once through one Client, neither maps into a
\* record the other maps into, and the fields a call has mapped hold the
\* values of its own response.
C3_MappingIsolation ==
    /\ \A p, q \in callers :
          (p # q /\ call[p].pc = "map" /\ call[q].pc = "map" /\ resOf[p] = resOf[q])
              => \A i \in 1..NumField(p) :
                    call[p].idx > i => FieldValue(p, i).t = "null"
    /\ \A p \in callers : \A i \in 1..NumField(p) :
          (call[p].pc = "map" /\ call[p].idx > i /\ FieldValue(p, i).t # "null")
              => Dest(p)[i] = Expected(FieldType(p, i), FieldValue(p, i), call[p].before[i])

\* ------------------------------------------------------------- C4

\* v is not null and not of the JSON type the kind takes
WrongType(ty, v) ==
    /\ v.t # "null"
    /\ CASE ty.kind = "bool" -> v.t # "bool"
         [] ty.kind \in {"int", "float64"} -> v.t # "number"
         [] ty.kind = "string" -> v.t # "string"
         [] ty.kind = "slice" -> v.t # "array"
         [] ty.kind = "struct" -> ~ty.hook /\ v.t # "object"
         [] OTHER -> FALSE

\* v maps into a nested slot of type ty without a failure
RECURSIVE MapsNested(_, _)
MapsNested(ty, v) ==
    CASE IsHooked(ty) -> TRUE
      [] ty.kind \in {"bool", "int", "float64", "string"} -> Matches(ty, v)
      [] ty.kind = "slice" ->
           v.t = "array" /\ \A i \in 1..Len(v.a) : MapsNested(ty.elem, v.a[i])
      [] ty.kind = "struct" ->
           /\ v.t = "object"
           /\ \A j \in 1..Len(ty.fields) :
                 MapsNested(ty.fields[j].ty, MapIndex(v.o, KeyOf(ty.fields[j])))
      [] OTHER -> FALSE

Least(S) == CHOOSE n \in S : \A m \in S : n <= m

\* The key the mapper is to name for the non-null v found for a slot under
\* key: <<key>> when v is of the wrong type for the slot itself, else the
\* key for the first nested slot or element that does not map, when that one
\* is wrongly typed in turn; <<>> when there is no such slot.
RECURSIVE Mistyped(_, _, _)
Mistyped(ty, v, key) ==
    IF WrongType(ty, v) THEN <<key>>
    ELSE IF ty.kind = "struct" /\ ~ty.hook /\ v.t = "object"
    THEN LET bad == {j \in 1..Len(ty.fields) :
                       ~MapsNested(ty.fields[j].ty, MapIndex(v.o, KeyOf(ty.fields[j])))}
         IN  IF bad = {} THEN <<>>
             ELSE LET j == Least(bad)
                  IN  Mistyped(ty.fields[j].ty, MapIndex(v.o, KeyOf(ty.fields[j])),
                               KeyOf(ty.fields[j]))
    ELSE IF ty.kind = "slice" /\ v.t = "array"
    THEN LET bad == {k \in 1..Len(v.a) : ~MapsNested(ty.elem, v.a[k])}
         IN  IF bad = {} THEN <<>>
             ELSE Mistyped(ty.elem, v.a[Least(bad)], key)
    ELSE <<>>

C5_WellTypedMapping ==
    \A p \in callers :
        (call[p].idx > 0
           /\ \A i \in 1..NumField(p) : Matches(FieldType(p, i), FieldValue(p, i)))
            => /\ call[p].pc = "done" => (call[p].out.state = "returned"
                                          /\ call[p].out.err = NoError
                                          /\ call[p].out.resp # <<>>)
               /\ \A i \in 1..NumField(p) :
                     Processed(p, i)
                        => Dest(p)[i] = Expected(FieldType(p, i), FieldValue(p, i),
                                                 call[p].before[i])

\* ------------------------------------------------------------- C10

\* no null and no absent key anywhere in v
RECURSIVE FullyPresent(_, _)
FullyPresent(ty, v) ==
    /\ v.t # "null"
    /\ (ty.kind = "slice" /\ v.t = "array")
         => \A i \in 1..Len(v.a) : FullyPresent(ty.elem, v.a[i])
    /\ (ty.kind = "struct" /\ ~ty.hook /\ v.t = "object")
         => \A j \in 1..Len(ty.fields) :
               FullyPresent(ty.fields[j].ty, MapIndex(v.o, KeyOf(ty.fields[j])))

\* what holds of the fields before and after the failing field k, and of Get
AbortsAt(p, k) ==
    /\ \A i \in 1..(k - 1) :
          FieldValue(p, i).t # "null"
             => Dest(p)[i] = Expected(FieldType(p, i), FieldValue(p, i), call[p].before[i])
    /\ \A i \in (k + 1)..NumField(p) : Dest(p)[i] = call[p].before[i]
    /\ call[p].out.state = "panicked"
    /\ call[p].out.err.kind \in {"PARSE ERROR", "UNHANDLED CASE"}
    /\ call[p].out.resp = <<>>

\* C10 as claimed: the fields are mapped in declaration order, and when the
\* k-th fails the pass stops: the earlier fields that were present hold
\* their coerced values, the failing field and the later ones keep the
\* values they had, the failure reaches the caller and Get returns no
\* envelope.  (Stated for failing values with no null and no absent key in
\* them, the failures C1 has no part in.)
C10_Original ==
    \A p \in callers : \A k \in 1..NumField(p) :
        (FailedAt(p, k) /\ FullyPresent(FieldType(p, k), FieldValue(p, k)))
            => /\ AbortsAt(p, k)
               /\ Dest(p)[k] = call[p].before[k]

\* cur is old with v mapped into it up to a failure: old itself, except for
\* a struct without SelfParse given an object, whose nested fields before
\* the failing one hold their coerced values, whose later nested fields are
\* as they were and whose failing nested field is part-mapped in turn
RECURSIVE PartMapped(_, _, _, _)
PartMapped(ty, v, old, cur) ==
    IF ty.kind = "struct" /\ ~ty.hook /\ v.t = "object"
    THEN /\ cur.t = "struct"
         /\ \E j \in 1..Len(ty.fields) :
               /\ \A h \in 1..(j - 1) :
                     cur.f[h] = Expected(ty.fields[h].ty,
                                         MapIndex(v.o, KeyOf(ty.fields[h])), old.f[h])
               /\ \A h \in (j + 1)..Len(ty.fields) : cur.f[h] = old.f[h]
               /\ PartMapped(ty.fields[j].ty, MapIndex(v.o, KeyOf(ty.fields[j])),
                             old.f[j], cur.f[j])
    ELSE cur = old

\* C10 amended: as claimed, but a failing field that is a struct without
\* SelfParse, given an object, does not keep its value: its nested fields
\* mapped before the failure hold their coerced values (every other failing
\* field, a slice whose element fails included, is left as it was).
C10_AbortOnFirstFailure ==
    \A p \in callers : \A k \in 1..NumField(p) :
        FailedAt(p, k)
            => /\ AbortsAt(p, k)
               /\ PartMapped(FieldType(p, k), FieldValue(p, k),
                             call[p].before[k], Dest(p)[k])

\* the second field of a filled record failed: the first holds its new
\* value, the third, present in the fields map, its old one
C10_Witness ==
    \E p \in callers :
        /\ FailedAt(p, 2)
        /\ shape[resOf[p]] = "Main"
        /\ call[p].before[1] = GString("old")
        /\ Dest(p)[1] = GString("a")
        /\ FieldValue(p, 3) = JBool(FALSE)
        /\ Dest(p)[3] = GBool(TRUE)

====
